---- MODULE Spec2Model ----
(***************************************************************************)
(* A model of the gigtag codec (src/src/lib.rs): Tag validity, the         *)
(* percent-encoding encoder, the URL-based decoder, the lenient FromStr    *)
(* parse and the free-text scanner DecodedTags::decode_str, and of the     *)
(* date-suffix functions of the facet module (src/src/facet/mod.rs).       *)
(*                                                                         *)
(* Strings are modelled as what a Rust &str is: a sequence of UTF-8 bytes  *)
(* (numbers 0..255).  Unicode white space, percent escapes and UTF-8       *)
(* validation are computed on the bytes.                                   *)
(***************************************************************************)
EXTENDS Integers, Sequences, FiniteSets, TLC

VARIABLES
    debug,    \* TRUE: the build has debug assertions (cfg(debug_assertions))
    given,    \* what the caller holds: "tag", "token", "text", "tags", "facet"
    tag,      \* the Tag value the caller constructed
    input,    \* the string handed to a function (token, text or facet)
    op,       \* the last operation that ran ("new": none yet)
    result,   \* what the last operation returned
    output,   \* the buffer the encoder wrote into
    decoded,  \* the DecodedTags value the caller holds
    previous  \* that value before the last operation that changed it
              \* (ListSpec: before the first of the calls)

vars == <<debug, given, tag, input, op, result, output, decoded, previous>>

(***************************************************************************)
(* Characters.  B turns a tuple of one-character strings into bytes.       *)
(***************************************************************************)
CharCode ==
    ("\t" :> 9) @@ ("\n" :> 10) @@ (" " :> 32) @@ ("#" :> 35) @@ ("%" :> 37) @@
    ("&" :> 38) @@ ("." :> 46) @@ ("/" :> 47) @@ ("0" :> 48) @@ ("1" :> 49) @@
    ("2" :> 50) @@ ("3" :> 51) @@ ("4" :> 52) @@ ("5" :> 53) @@ ("6" :> 54) @@
    ("7" :> 55) @@ ("8" :> 56) @@ ("9" :> 57) @@ (":" :> 58) @@ ("=" :> 61) @@
    ("?" :> 63) @@ ("@" :> 64) @@ ("A" :> 65) @@ ("C" :> 67) @@ ("E" :> 69) @@ ("F" :> 70) @@
    ("k" :> 107) @@ ("v" :> 118) @@ ("x" :> 120) @@ ("y" :> 121) @@ ("~" :> 126)

B(cs) == [i \in 1..Len(cs) |-> CharCode[cs[i]]]

Ch(c) == CharCode[c]

Drop(s, n) == SubSeq(s, n + 1, Len(s))

Take(s, n) == SubSeq(s, 1, n)

(***************************************************************************)
(* char::is_whitespace (the Unicode White_Space property) on UTF-8 bytes:  *)
(* U+0009..U+000D, U+0020, U+0085, U+00A0, U+1680, U+2000..U+200A,         *)
(* U+2028, U+2029, U+202F, U+205F, U+3000.                                 *)
(***************************************************************************)
IsAsciiWs(b) == b \in 9..13 \/ b = 32

\* Byte length of the white-space character that starts at byte i (0: none).
WsLenAt(s, i) ==
    IF i > Len(s) THEN 0
    ELSE IF IsAsciiWs(s[i]) THEN 1
    ELSE IF i + 1 <= Len(s) /\ s[i] = 194 /\ s[i + 1] \in {133, 160} THEN 2
    ELSE IF i + 2 <= Len(s) /\
            \/ s[i] = 225 /\ s[i + 1] = 154 /\ s[i + 2] = 128
            \/ s[i] = 226 /\ s[i + 1] = 128 /\ s[i + 2] \in (128..138) \cup {168, 169, 175}
            \/ s[i] = 226 /\ s[i + 1] = 129 /\ s[i + 2] = 159
            \/ s[i] = 227 /\ s[i + 1] = 128 /\ s[i + 2] = 128
         THEN 3
    ELSE 0

\* Byte length of the white-space character that ends at byte i (0: none).
WsLenBefore(s, i) ==
    IF i < 1 THEN 0
    ELSE IF IsAsciiWs(s[i]) THEN 1
    ELSE IF i >= 2 /\ WsLenAt(s, i - 1) = 2 THEN 2
    ELSE IF i >= 3 /\ WsLenAt(s, i - 2) = 3 THEN 3
    ELSE 0

RECURSIVE TrimStartIdx(_, _)
TrimStartIdx(s, i) ==
    IF WsLenAt(s, i) = 0 THEN i ELSE TrimStartIdx(s, i + WsLenAt(s, i))

RECURSIVE TrimEndIdx(_, _)
TrimEndIdx(s, i) ==
    IF WsLenBefore(s, i) = 0 THEN i ELSE TrimEndIdx(s, i - WsLenBefore(s, i))

\* str::trim_end
trim_end(s) == Take(s, TrimEndIdx(s, Len(s)))

\* str::trim
trim(s) ==
    LET a == TrimStartIdx(s, 1)
    IN  IF a > Len(s) THEN <<>> ELSE SubSeq(s, a, TrimEndIdx(s, Len(s)))

(***************************************************************************)
(* Percent-encoding (crate percent_encoding, as lib.rs uses it).           *)
(***************************************************************************)
\* percent_encoding::CONTROLS: the C0 controls and DEL.
CONTROLS == (0..31) \cup {127}

\* mod encoding: the three escape sets of the encoder.
FRAGMENT == CONTROLS \cup {32, 34, 60, 62, 96}

QUERY == CONTROLS \cup {32, 34, 60, 62, 35}

PATH == QUERY \cup {96, 63, 123, 125}

HexDigit(n) == IF n < 10 THEN 48 + n ELSE 55 + n

IsHex(b) == b \in 48..57 \/ b \in 65..70 \/ b \in 97..102

HexVal(b) == IF b \in 48..57 THEN b - 48 ELSE IF b \in 65..70 THEN b - 55 ELSE b - 87

\* Mutant of percent_encode: only the bytes of the set are escaped.
RECURSIVE percent_encode_set_only(_, _)
percent_encode_set_only(s, set) ==
    IF s = <<>> THEN <<>>
    ELSE LET b == Head(s)
         IN  (IF b \in set
                 THEN <<37, HexDigit(b \div 16), HexDigit(b % 16)>>
                 ELSE <<b>>) \o percent_encode_set_only(Tail(s), set)

\* percent_encode(bytes, set): a byte of the set, and every non-ASCII byte,
\* becomes %XX with upper-case hex digits.
RECURSIVE percent_encode(_, _)
percent_encode(s, set) ==
    IF s = <<>> THEN <<>>
    ELSE LET b == Head(s)
         IN  (IF b >= 128 \/ b \in set
                 THEN <<37, HexDigit(b \div 16), HexDigit(b % 16)>>
                 ELSE <<b>>) \o percent_encode(Tail(s), set)

\* percent_decode(bytes): %XX with two hex digits becomes the byte, any
\* other '%' stays as it is.
RECURSIVE percent_decode(_)
percent_decode(s) ==
    IF s = <<>> THEN <<>>
    ELSE IF Head(s) = 37 /\ Len(s) >= 3 /\ IsHex(s[2]) /\ IsHex(s[3])
         THEN <<16 * HexVal(s[2]) + HexVal(s[3])>> \o percent_decode(Drop(s, 3))
    ELSE <<Head(s)>> \o percent_decode(Tail(s))

IsCont(s, i) == i <= Len(s) /\ s[i] \in 128..191

\* Byte length of the well-formed UTF-8 character starting at byte 1 of s
\* (0: none), as core::str::from_utf8 accepts it.
Utf8CharLen(s) ==
    LET b == s[1]
    IN  IF b < 128 THEN 1
        ELSE IF b \in 194..223 /\ IsCont(s, 2) THEN 2
        ELSE IF /\ b \in 224..239 /\ IsCont(s, 2) /\ IsCont(s, 3)
                /\ (b = 224 => s[2] >= 160)
                /\ (b = 237 => s[2] <= 159) THEN 3
        ELSE IF /\ b \in 240..244 /\ IsCont(s, 2) /\ IsCont(s, 3) /\ IsCont(s, 4)
                /\ (b = 240 => s[2] >= 144)
                /\ (b = 244 => s[2] <= 143) THEN 4
        ELSE 0

\* PercentDecode::decode_utf8 succeeds.
RECURSIVE IsUtf8(_)
IsUtf8(s) ==
    IF s = <<>> THEN TRUE
    ELSE LET n == Utf8CharLen(s)
         IN  n > 0 /\ IsUtf8(Drop(s, n))

(***************************************************************************)
(* The date-like suffix of a facet (lib.rs: separator '~').                *)
(* The regexes are regex::bytes::Regex with Unicode mode on: \s is the     *)
(* White_Space property and \d is the Nd category.  Of Nd the model has    *)
(* the ASCII digits and, as the non-ASCII representative, the              *)
(* Arabic-Indic digits U+0660..U+0669 (bytes D9 A0..A9).                   *)
(***************************************************************************)
DATE_SEPARATOR == 126

DATE_DIGITS == 8

\* Byte length of the \d character that ends at byte i (0: none).
DigitLenBefore(s, i) ==
    IF i < 1 THEN 0
    ELSE IF s[i] \in 48..57 THEN 1
    ELSE IF i >= 2 /\ s[i - 1] = 217 /\ s[i] \in 160..169 THEN 2
    ELSE 0

\* Index of the first byte of n \d characters that end at byte e (0: none).
RECURSIVE DigitsStart(_, _, _)
DigitsStart(s, e, n) ==
    IF n = 0 THEN e + 1
    ELSE IF DigitLenBefore(s, e) = 0 THEN 0
    ELSE DigitsStart(s, e - DigitLenBefore(s, e), n - 1)

\* Index of the separator of a suffix ~\d{8}$ (0: s has no such suffix).
DateSepIdx(s) ==
    LET d == DigitsStart(s, Len(s), DATE_DIGITS)
    IN  IF d >= 2 /\ s[d - 1] = DATE_SEPARATOR THEN d - 1 ELSE 0

\* date_like_suffix_regex: (^|[^\s])~\d{8}$
date_like_suffix_regex(s) ==
    LET p == DateSepIdx(s)
    IN  p > 0 /\ WsLenBefore(s, p - 1) = 0

\* invalid_date_like_suffix_regex: [\s]+~\d{8}$
invalid_date_like_suffix_regex(s) ==
    LET p == DateSepIdx(s)
    IN  p > 0 /\ WsLenBefore(s, p - 1) > 0

\* facet_has_date_like_suffix
facet_has_date_like_suffix(facet) == date_like_suffix_regex(facet)

(***************************************************************************)
(* Field validity and the Tag (lib.rs).                                    *)
(***************************************************************************)
\* Prop::is_valid_key
is_valid_key(key) == trim(key) = key

\* is_valid_label
is_valid_label(label) == trim(label) = label

\* is_valid_facet
is_valid_facet(facet) == trim(facet) = facet /\ (facet = <<>> \/ facet[1] # Ch("/"))

\* label::is_valid (label.rs)
label_is_valid(label) == trim(label) = label /\ (label = <<>> \/ label[1] # Ch("/"))

\* facet::is_valid (facet/mod.rs)
facet_is_valid(facet) == trim(facet) = facet /\ (facet = <<>> \/ facet[1] # Ch("/"))

\* props::is_name_valid (props.rs)
is_name_valid(name) == trim(name) = name /\ (name = <<>> \/ name[1] # Ch("/"))

\* Prop::has_key / Prop::is_valid (the key is assumed trimmed)
Prop_is_valid(prop) == prop.key # <<>>

\* is_valid_props
is_valid_props(props) == \A i \in 1..Len(props) : Prop_is_valid(props[i])

\* Tag::default()
DefaultTag == [label |-> <<>>, facet |-> <<>>, props |-> <<>>]

has_label(t) == t.label # <<>>

has_facet(t) == t.facet # <<>>

has_props(t) == t.props # <<>>

has_facet_with_date_like_suffix(t) == facet_has_date_like_suffix(t.facet)

\* The debug assertions of the accessors is_valid evaluates, in its
\* short-circuit order: has_label(), has_facet(), has_props() -> props(),
\* has_facet_with_date_like_suffix() -> facet().
Tag_is_valid_asserts(t) ==
    /\ is_valid_label(t.label)
    /\ (~has_label(t) =>
            /\ is_valid_facet(t.facet)
            /\ (has_facet(t) =>
                    /\ \A i \in 1..Len(t.props) : is_valid_key(t.props[i].key)
                    /\ is_valid_props(t.props)))

\* Mutant of Tag::is_valid: a non-empty facet alone makes the tag valid.
Tag_is_valid_facet_suffices(t) == has_label(t) \/ has_facet(t)

\* Tag::is_valid
Tag_is_valid(t) ==
    has_label(t) \/ (has_facet(t) /\ (has_props(t) \/ has_facet_with_date_like_suffix(t)))

\* Tag::is_valid as a call: it panics in a debug build when an assertion
\* of an accessor fails.
Tag_is_valid_call(t, dbg) ==
    IF dbg /\ ~Tag_is_valid_asserts(t) THEN "panic"
    ELSE IF Tag_is_valid(t) THEN "true" ELSE "false"

(***************************************************************************)
(* Tag::encode_into                                                        *)
(***************************************************************************)
\* One property: "{encoded_key}={encoded_val}"
encode_prop(prop) ==
    percent_encode(prop.key, QUERY) \o <<Ch("=")>> \o percent_encode(prop.val, QUERY)

\* itertools::join(encoded_props_iter, "&")
RECURSIVE encode_props(_)
encode_props(props) ==
    IF props = <<>> THEN <<>>
    ELSE IF Len(props) = 1 THEN encode_prop(props[1])
    ELSE encode_prop(props[1]) \o <<Ch("&")>> \o encode_props(Tail(props))

\* Mutant of encode_into: the label is written before the properties.
Tag_encode_label_first(t) ==
    LET encoded_label == percent_encode(t.label, FRAGMENT)
        encoded_facet == percent_encode(t.facet, PATH)
    IN  IF ~has_props(t)
        THEN IF has_label(t) THEN encoded_facet \o <<Ch("#")>> \o encoded_label
             ELSE encoded_facet
        ELSE IF has_label(t)
             THEN encoded_facet \o <<Ch("#")>> \o encoded_label
                      \o <<Ch("?")>> \o encode_props(t.props)
             ELSE encoded_facet \o <<Ch("?")>> \o encode_props(t.props)

\* The text encode_into writes.
Tag_encode(t) ==
    LET encoded_label == percent_encode(t.label, FRAGMENT)
        encoded_facet == percent_encode(t.facet, PATH)
    IN  IF ~has_props(t)
        THEN IF has_label(t) THEN encoded_facet \o <<Ch("#")>> \o encoded_label
             ELSE encoded_facet
        ELSE IF has_label(t)
             THEN encoded_facet \o <<Ch("?")>> \o encode_props(t.props)
                      \o <<Ch("#")>> \o encoded_label
             ELSE encoded_facet \o <<Ch("?")>> \o encode_props(t.props)

\* The debug assertions of encode_into: is_valid(), label(), facet(), props().
Tag_encode_asserts(t) ==
    /\ Tag_is_valid_call(t, TRUE) = "true"
    /\ is_valid_label(t.label)
    /\ is_valid_facet(t.facet)
    /\ \A i \in 1..Len(t.props) : is_valid_key(t.props[i].key)
    /\ is_valid_props(t.props)

\* Tag::encode_into as a call.
Tag_encode_into(t, dbg) ==
    IF dbg /\ ~Tag_encode_asserts(t) THEN [kind |-> "Panic", str |-> <<>>]
    ELSE [kind |-> "Ok", str |-> Tag_encode(t)]

(***************************************************************************)
(* Url::options().base_url(Some(dummy_base_url())).parse(encoded), the     *)
(* call of decode_str into the url crate, for the base "dummy:///" (a      *)
(* scheme that is not special, an empty host, the path "/").  Only the     *)
(* path, the query and the fragment of the result are read by decode_str.  *)
(* Not modelled: the special schemes (http, https, ws, wss, ftp, file) and *)
(* IPv6 hosts; the alphabets of the model cannot spell them.               *)
(***************************************************************************)
\* The url crate's own escape sets (parser.rs).
URL_FRAGMENT == CONTROLS \cup {32, 34, 60, 62, 96}

URL_PATH == URL_FRAGMENT \cup {35, 63, 123, 125}

URL_QUERY == CONTROLS \cup {32, 34, 35, 60, 62}

\* Index of the first byte of s that is in set cs (Len(s) + 1: none).
RECURSIVE IndexFrom(_, _, _)
IndexFrom(s, cs, i) ==
    IF i > Len(s) THEN i ELSE IF s[i] \in cs THEN i ELSE IndexFrom(s, cs, i + 1)

IndexOf(s, cs) == IndexFrom(s, cs, 1)

\* Index of the last byte of s that is in set cs (0: none).
RECURSIVE LastIndexFrom(_, _, _)
LastIndexFrom(s, cs, i) ==
    IF i < 1 THEN 0 ELSE IF s[i] \in cs THEN i ELSE LastIndexFrom(s, cs, i - 1)

\* slice::split(|b| *b == c): the pieces between the separators, empty ones kept.
RECURSIVE SplitOn(_, _)
SplitOn(s, c) ==
    LET i == IndexOf(s, {c})
    IN  IF i > Len(s) THEN <<s>> ELSE <<Take(s, i - 1)>> \o SplitOn(Drop(s, i), c)

\* Input::new: leading and trailing C0 controls and spaces are dropped, and
\* the parser skips every tab, LF and CR.
UrlInput(s) ==
    LET a == IndexOf(s, 33..255)
        b == LastIndexFrom(s, 33..255, Len(s))
    IN  IF a > Len(s) THEN <<>>
        ELSE SelectSeq(SubSeq(s, a, b), LAMBDA c : c \notin {9, 10, 13})

IsAlpha(b) == b \in 65..90 \/ b \in 97..122

IsSchemeChar(b) == IsAlpha(b) \/ b \in 48..57 \/ b \in {43, 45, 46}

RECURSIVE SchemeScan(_, _)
SchemeScan(s, i) ==
    IF i > Len(s) THEN 0
    ELSE IF s[i] = Ch(":") THEN i
    ELSE IF IsSchemeChar(s[i]) THEN SchemeScan(s, i + 1)
    ELSE 0

\* Parser::parse_scheme: the index of the ':' that ends a scheme (0: none).
SchemeEnd(s) == IF s # <<>> /\ IsAlpha(s[1]) THEN SchemeScan(s, 2) ELSE 0

IsSingleDot(seg) == seg \in {B(<<".">>), B(<<"%", "2", "E">>), <<37, 50, 101>>}

IsDoubleDot(seg) ==
    \E a, b \in {B(<<".">>), B(<<"%", "2", "E">>), <<37, 50, 101>>} : seg = a \o b

\* Parser::parse_path over the '/'-separated segments: a double-dot segment
\* removes the last segment, a dot segment adds none, and either one, when
\* it is the last segment, leaves an empty segment.
RECURSIVE UrlPathSegs(_, _)
UrlPathSegs(acc, segs) ==
    IF segs = <<>> THEN acc
    ELSE LET seg == percent_encode(Head(segs), URL_PATH)
             last == Len(segs) = 1
             shortened == IF acc = <<>> THEN acc ELSE Take(acc, Len(acc) - 1)
             acc2 == IF IsDoubleDot(seg)
                         THEN IF last THEN Append(shortened, <<>>) ELSE shortened
                     ELSE IF IsSingleDot(seg)
                         THEN IF last THEN Append(acc, <<>>) ELSE acc
                     ELSE Append(acc, seg)
         IN  UrlPathSegs(acc2, Tail(segs))

RECURSIVE JoinPath(_)
JoinPath(segs) ==
    IF segs = <<>> THEN <<>> ELSE <<Ch("/")>> \o Head(segs) \o JoinPath(Tail(segs))

\* The serialized path of a hierarchical URL whose path text (after the
\* leading '/' of the root) is raw.
UrlPath(raw) == JoinPath(UrlPathSegs(<<>>, SplitOn(raw, Ch("/"))))

\* Host::parse_opaque: the forbidden host code points.
UrlHostOk(host) ==
    /\ \A i \in 1..Len(host) :
           host[i] \notin {0, 9, 10, 13, 32, 35, 47, 58, 60, 62, 63, 64, 91, 92, 93, 94, 124}

RECURSIVE DecimalValue(_, _)
DecimalValue(s, acc) ==
    IF s = <<>> \/ acc > 65535 THEN acc
    ELSE DecimalValue(Tail(s), 10 * acc + (Head(s) - 48))

\* Parser::parse_port: decimal digits only, at most u16::MAX.
UrlPortOk(port) ==
    /\ \A i \in 1..Len(port) : port[i] \in 48..57
    /\ DecimalValue(port, 0) <= 65535

\* Query and fragment of the text r that follows the path.
UrlTail(r, path) ==
    LET h == IndexOf(r, {Ch("#")})
        before == Take(r, h - 1)
        q == IndexOf(before, {Ch("?")})
    IN  [ok |-> TRUE,
         path |-> path,
         query |-> percent_encode(Drop(before, q), URL_QUERY),
         fragment |-> percent_encode(Drop(r, h), URL_FRAGMENT)]

UrlError == [ok |-> FALSE, path |-> <<>>, query |-> <<>>, fragment |-> <<>>]

\* Parser::after_double_slash: userinfo, host and port, then the path.
UrlAuthority(r) ==
    LET e == IndexOf(r, {Ch("/"), Ch("?"), Ch("#")})
        auth == Take(r, e - 1)
        rest == Drop(r, e - 1)
        at == LastIndexFrom(auth, {Ch("@")}, Len(auth))
        hostport == Drop(auth, at)
        c == IndexOf(hostport, {Ch(":")})
        host == Take(hostport, c - 1)
        port == Drop(hostport, c)
        p == IndexOf(rest, {Ch("?"), Ch("#")})
        rawpath == Take(rest, p - 1)
    IN  IF \/ ~UrlHostOk(host)
           \/ (host = <<>> /\ (at > 0 \/ c <= Len(hostport)))
           \/ ~UrlPortOk(port)
        THEN UrlError
        ELSE UrlTail(Drop(rest, p - 1),
                     IF rawpath = <<>> THEN <<>> ELSE UrlPath(Tail(rawpath)))

\* Text r of a hierarchical reference, from its path on.
UrlHierarchical(r, emptyPath) ==
    LET p == IndexOf(r, {Ch("?"), Ch("#")})
        rawpath == Take(r, p - 1)
    IN  UrlTail(Drop(r, p - 1),
                IF rawpath = <<>> THEN emptyPath
                ELSE IF rawpath[1] = Ch("/") THEN UrlPath(Tail(rawpath))
                ELSE UrlPath(rawpath))

\* Parser::parse_cannot_be_a_base_path: the opaque path of "scheme:text".
UrlOpaque(r) ==
    LET p == IndexOf(r, {Ch("?"), Ch("#")})
    IN  UrlTail(Drop(r, p - 1), percent_encode(Take(r, p - 1), CONTROLS))

\* Parser::parse_url with the base dummy:///.
UrlParse(encoded) ==
    LET s == UrlInput(encoded)
        k == SchemeEnd(s)
        r == Drop(s, k)
    IN  IF Len(r) >= 2 /\ r[1] = Ch("/") /\ r[2] = Ch("/") THEN UrlAuthority(Drop(r, 2))
        ELSE IF k = 0 THEN UrlHierarchical(r, <<Ch("/")>>)       \* relative to the base
        ELSE IF r # <<>> /\ r[1] = Ch("/") THEN UrlHierarchical(r, <<>>)
        ELSE UrlOpaque(r)

(***************************************************************************)
(* Tag::decode_str and FromStr                                             *)
(***************************************************************************)
\* The outcomes of a decode: Ok(tag), Err(DecodeError::Parse),
\* Err(DecodeError::InvalidTag), or a panic of the thread.
OkTag(t) == [kind |-> "Ok", tag |-> t]

ParseError == [kind |-> "Parse", tag |-> DefaultTag]

InvalidTag == [kind |-> "InvalidTag", tag |-> DefaultTag]

Panic == [kind |-> "Panic", tag |-> DefaultTag]

\* encoded_trimmed != encoded
has_surrounding_whitespace(encoded) == trim(encoded) # encoded

\* Mutant of the leading-slash check: it is left out.
starts_with_slash_unchecked(encoded) == FALSE

\* encoded_trimmed.as_bytes().first() == Some(&b'/')
starts_with_slash(encoded) == encoded # <<>> /\ encoded[1] = Ch("/")

\* One '&'-separated segment of the query: the property, or an error.
decode_prop(keyval_encoded) ==
    LET keyval_encoded_split == SplitOn(keyval_encoded, Ch("="))
        key == percent_decode(keyval_encoded_split[1])
        val == percent_decode(IF Len(keyval_encoded_split) >= 2
                                  THEN keyval_encoded_split[2] ELSE <<>>)
    IN  IF Len(keyval_encoded_split) >= 3 THEN [ok |-> FALSE, prop |-> <<>>]
        ELSE IF ~IsUtf8(key) THEN [ok |-> FALSE, prop |-> <<>>]
        ELSE IF ~is_valid_key(key) THEN [ok |-> FALSE, prop |-> <<>>]
        ELSE IF ~IsUtf8(val) THEN [ok |-> FALSE, prop |-> <<>>]
        ELSE [ok |-> TRUE, prop |-> [key |-> key, val |-> val]]

\* Mutant of the loop: an empty query is split like any other.
decode_props_of_empty_query(query) ==
    LET segs == SplitOn(query, Ch("&"))
        each == [i \in 1..Len(segs) |-> decode_prop(segs[i])]
    IN  IF \E i \in 1..Len(segs) : ~each[i].ok
        THEN [ok |-> FALSE, props |-> <<>>]
        ELSE [ok |-> TRUE, props |-> [i \in 1..Len(segs) |-> each[i].prop]]

\* The loop over the segments of a non-empty query.
decode_props(query) ==
    IF query = <<>> THEN [ok |-> TRUE, props |-> <<>>]
    ELSE LET segs == SplitOn(query, Ch("&"))
             each == [i \in 1..Len(segs) |-> decode_prop(segs[i])]
         IN  IF \E i \in 1..Len(segs) : ~each[i].ok
             THEN [ok |-> FALSE, props |-> <<>>]
             ELSE [ok |-> TRUE, props |-> [i \in 1..Len(segs) |-> each[i].prop]]

\* The end of decode_str: the tag is assembled and checked.
decode_assemble(label, facet, props, dbg) ==
    LET t == [label |-> label, facet |-> facet, props |-> props]
        valid == Tag_is_valid_call(t, dbg)
    IN  IF valid = "panic" THEN Panic
        ELSE IF valid = "false" THEN InvalidTag
        ELSE OkTag(t)

\* decode_str from the query on.
decode_query(url, label, facet, dbg) ==
    LET query == url.query
        props == decode_props(query)
    IN  IF dbg /\ trim(query) # query THEN Panic
        ELSE IF ~props.ok THEN ParseError
        ELSE decode_assemble(label, facet, props.props, dbg)

\* decode_str from the path on.
decode_path(url, label, dbg) ==
    LET path == url.path
        facet == percent_decode(Tail(path))
    IN  IF dbg /\ (path = <<>> \/ trim(path) # path \/ path[1] # Ch("/")) THEN Panic
        ELSE IF path = <<>> THEN Panic       \* &url.path().as_bytes()[1..]
        ELSE IF ~IsUtf8(facet) THEN ParseError
        ELSE IF ~is_valid_facet(facet) THEN ParseError
        ELSE IF invalid_date_like_suffix_regex(facet) THEN ParseError
        ELSE decode_query(url, label, facet, dbg)

\* Tag::decode_str
Tag_decode_str(encoded, dbg) ==
    IF has_surrounding_whitespace(encoded) THEN ParseError
    ELSE IF trim(encoded) = <<>> THEN ParseError
    ELSE IF starts_with_slash(encoded) THEN ParseError
    ELSE LET url == UrlParse(encoded)
             fragment == url.fragment
             label == percent_decode(fragment)
         IN  IF ~url.ok THEN ParseError
             ELSE IF dbg /\ trim(fragment) # fragment THEN Panic
             ELSE IF ~IsUtf8(label) THEN ParseError
             ELSE IF ~is_valid_label(label) THEN ParseError
             ELSE decode_path(url, label, dbg)

\* Mutant of FromStr: the input is not trimmed.
Tag_from_str_untrimmed(s, dbg) == Tag_decode_str(s, dbg)

\* impl FromStr for Tag
Tag_from_str(s, dbg) == Tag_decode_str(trim(s), dbg)

(***************************************************************************)
(* DecodedTags::decode_str: the scanner of a free text.                    *)
(***************************************************************************)
\* struct DecodedTags, and the scan that did not return.
DecodedTags(tags, undecoded_prefix) ==
    [kind |-> "Ok", tags |-> tags, undecoded_prefix |-> undecoded_prefix]

ScanPanic == [kind |-> "Panic", tags |-> <<>>, undecoded_prefix |-> <<>>]

\* remainder.rmatch_indices(char::is_whitespace).next(): the index of the
\* first byte of the last white-space character at or before byte i
\* (1-based; 0: there is none).
RECURSIVE rmatch_whitespace(_, _)
rmatch_whitespace(s, i) ==
    IF i < 1 THEN 0
    ELSE IF WsLenBefore(s, i) > 0 THEN i - WsLenBefore(s, i) + 1
    ELSE rmatch_whitespace(s, i - 1)

\* tags.reverse()
RECURSIVE reverse(_)
reverse(s) == IF s = <<>> THEN <<>> ELSE Append(reverse(Tail(s)), Head(s))

\* Mutant of the end of the scan: a prefix of white space is kept.
scan_finish_keeps_whitespace(tags, undecoded_prefix) ==
    DecodedTags(reverse(tags), undecoded_prefix)

\* The end of the scan: tags.reverse(), and a prefix of nothing but white
\* space is discarded.
scan_finish(tags, undecoded_prefix) ==
    DecodedTags(reverse(tags),
                IF trim(undecoded_prefix) = <<>> THEN <<>> ELSE undecoded_prefix)

\* The while loop.  The slices remainder[..=i] and remainder[i + 1..] end
\* and start one byte after the first byte of the white-space character:
\* inside the character when it is longer than one byte, and slicing a str
\* off a character boundary panics.
RECURSIVE scan_loop(_, _, _)
scan_loop(undecoded_prefix, tags, dbg) ==
    LET remainder == trim_end(undecoded_prefix)
        w == rmatch_whitespace(remainder, Len(remainder))
        next_remainder == IF w = 0 THEN <<>> ELSE Take(remainder, w)
        next_token == Drop(remainder, w)
        next == Tag_decode_str(next_token, dbg)
    IN  IF undecoded_prefix = <<>> \/ remainder = <<>>
        THEN scan_finish(tags, undecoded_prefix)
        ELSE IF w > 0 /\ WsLenAt(remainder, w) > 1 THEN ScanPanic
        ELSE IF next.kind = "Panic" THEN ScanPanic
        ELSE IF next.kind = "Ok"
             THEN scan_loop(next_remainder, Append(tags, next.tag), dbg)
        ELSE scan_finish(tags, undecoded_prefix)

\* DecodedTags::decode_str
DecodedTags_decode_str(encoded, dbg) == scan_loop(encoded, <<>>, dbg)

(***************************************************************************)
(* DecodedTags::encode_into, dedup and reorder_date_like.                  *)
(***************************************************************************)
\* JOIN_ENCODED_TAGS_CHAR
JOIN_ENCODED_TAGS_CHAR == 32

\* The loop of DecodedTags::encode_into over the tags.
RECURSIVE encode_tags(_, _, _)
encode_tags(tags, append_separator, dbg) ==
    IF tags = <<>> THEN [kind |-> "Ok", str |-> <<>>]
    ELSE LET written == Tag_encode_into(Head(tags), dbg)
             rest == encode_tags(Tail(tags), TRUE, dbg)
             separator == IF append_separator THEN <<JOIN_ENCODED_TAGS_CHAR>> ELSE <<>>
         IN  IF written.kind = "Panic" \/ rest.kind = "Panic"
             THEN [kind |-> "Panic", str |-> <<>>]
             ELSE [kind |-> "Ok", str |-> separator \o written.str \o rest.str]

\* Mutant of DecodedTags::encode_into: a space follows every prefix.
DecodedTags_encode_into_always_separates(d, dbg) ==
    LET written == encode_tags(d.tags, d.undecoded_prefix # <<>>, dbg)
    IN  IF written.kind = "Panic" THEN written
        ELSE [kind |-> "Ok", str |-> d.undecoded_prefix \o written.str]

\* DecodedTags::encode_into
DecodedTags_encode_into(d, dbg) ==
    LET append_separator ==
            /\ d.undecoded_prefix # <<>>
            /\ trim_end(d.undecoded_prefix) = d.undecoded_prefix
        written == encode_tags(d.tags, append_separator, dbg)
    IN  IF written.kind = "Panic" THEN written
        ELSE [kind |-> "Ok", str |-> d.undecoded_prefix \o written.str]

\* impl Display for Tag: tag.to_string()
Tag_to_string(t, dbg) == Tag_encode_into(t, dbg)

\* self.tags.retain(|tag| encoded.take(&tag.to_string()).is_some()): a tag
\* is kept when its string is still in the set, and the string is taken out.
RECURSIVE dedup_retain(_, _, _)
dedup_retain(tags, encoded, dbg) ==
    IF tags = <<>> THEN <<>>
    ELSE LET e == Tag_to_string(Head(tags), dbg).str
         IN  IF e \in encoded
             THEN <<Head(tags)>> \o dedup_retain(Tail(tags), encoded \ {e}, dbg)
             ELSE dedup_retain(Tail(tags), encoded, dbg)

\* Mutant of dedup: the undecoded prefix is cleared.
DecodedTags_dedup_clears_prefix(d, dbg) ==
    IF \E i \in 1..Len(d.tags) : Tag_to_string(d.tags[i], dbg).kind = "Panic"
    THEN ScanPanic
    ELSE LET encoded == {Tag_to_string(d.tags[i], dbg).str : i \in 1..Len(d.tags)}
         IN  [d EXCEPT !.tags = dedup_retain(d.tags, encoded, dbg),
                       !.undecoded_prefix = <<>>]

\* DecodedTags::dedup
DecodedTags_dedup(d, dbg) ==
    IF \E i \in 1..Len(d.tags) : Tag_to_string(d.tags[i], dbg).kind = "Panic"
    THEN ScanPanic
    ELSE LET encoded == {Tag_to_string(d.tags[i], dbg).str : i \in 1..Len(d.tags)}
         IN  [d EXCEPT !.tags = dedup_retain(d.tags, encoded, dbg)]

\* DATE_LIKE_SUFFIX_LEN
DATE_LIKE_SUFFIX_LEN == 1 + DATE_DIGITS

\* try_split_facet_into_prefix_and_date_like_suffix: slicing the facet at
\* prefix_len panics when that byte is inside a character.
try_split_facet_into_prefix_and_date_like_suffix(facet) ==
    LET prefix_len == Len(facet) - DATE_LIKE_SUFFIX_LEN
        date_suffix == Drop(facet, prefix_len)
    IN  IF Len(facet) < DATE_LIKE_SUFFIX_LEN
        THEN [kind |-> "None", prefix |-> <<>>, suffix |-> <<>>]
        ELSE IF IsCont(facet, prefix_len + 1)
        THEN [kind |-> "Panic", prefix |-> <<>>, suffix |-> <<>>]
        ELSE IF \E i \in 1..Len(date_suffix) : date_suffix[i] >= 128
        THEN [kind |-> "None", prefix |-> <<>>, suffix |-> <<>>]
        ELSE [kind |-> "Some", prefix |-> Take(facet, prefix_len), suffix |-> date_suffix]

\* Ord::cmp of two strings: the order of their bytes.
RECURSIVE str_cmp(_, _)
str_cmp(a, b) ==
    IF a = <<>> /\ b = <<>> THEN "Equal"
    ELSE IF a = <<>> THEN "Less"
    ELSE IF b = <<>> THEN "Greater"
    ELSE IF Head(a) < Head(b) THEN "Less"
    ELSE IF Head(a) > Head(b) THEN "Greater"
    ELSE str_cmp(Tail(a), Tail(b))

\* Mutant of the closure: the tags with a date-like facet go first.
reorder_cmp_date_like_first(lhs, rhs) ==
    IF has_facet_with_date_like_suffix(rhs)
    THEN IF has_facet_with_date_like_suffix(lhs)
         THEN LET l == try_split_facet_into_prefix_and_date_like_suffix(lhs.facet)
                  r == try_split_facet_into_prefix_and_date_like_suffix(rhs.facet)
              IN  IF l.kind # "Some" \/ r.kind # "Some" THEN "Panic"
                  ELSE str_cmp(r.suffix, l.suffix)
         ELSE "Greater"
    ELSE IF has_facet_with_date_like_suffix(lhs) THEN "Less"
    ELSE "Equal"

\* Mutant of the closure: the suffixes in ascending order.
reorder_cmp_ascending(lhs, rhs) ==
    IF has_facet_with_date_like_suffix(rhs)
    THEN IF has_facet_with_date_like_suffix(lhs)
         THEN LET l == try_split_facet_into_prefix_and_date_like_suffix(lhs.facet)
                  r == try_split_facet_into_prefix_and_date_like_suffix(rhs.facet)
              IN  IF l.kind # "Some" \/ r.kind # "Some" THEN "Panic"
                  ELSE str_cmp(l.suffix, r.suffix)
         ELSE "Less"
    ELSE IF has_facet_with_date_like_suffix(lhs) THEN "Greater"
    ELSE "Equal"

\* The closure of reorder_date_like; unwrap() of None panics.
reorder_cmp(lhs, rhs) ==
    IF has_facet_with_date_like_suffix(rhs)
    THEN IF has_facet_with_date_like_suffix(lhs)
         THEN LET l == try_split_facet_into_prefix_and_date_like_suffix(lhs.facet)
                  r == try_split_facet_into_prefix_and_date_like_suffix(rhs.facet)
              IN  IF l.kind # "Some" \/ r.kind # "Some" THEN "Panic"
                  ELSE str_cmp(r.suffix, l.suffix)
         ELSE "Less"
    ELSE IF has_facet_with_date_like_suffix(lhs) THEN "Greater"
    ELSE "Equal"

\* Mutant of the sort: it is not stable, a tag goes before its equals.
RECURSIVE sort_insert_unstable(_, _)
sort_insert_unstable(sorted, t) ==
    IF sorted = <<>> THEN <<t>>
    ELSE IF reorder_cmp(t, Head(sorted)) \in {"Less", "Equal"} THEN <<t>> \o sorted
    ELSE <<Head(sorted)>> \o sort_insert_unstable(Tail(sorted), t)

\* slice::sort_by is a stable sort: a tag goes behind every tag of the
\* sorted part that is not greater than it.
RECURSIVE sort_insert(_, _)
sort_insert(sorted, t) ==
    IF sorted = <<>> THEN <<t>>
    ELSE IF reorder_cmp(t, Head(sorted)) = "Less" THEN <<t>> \o sorted
    ELSE <<Head(sorted)>> \o sort_insert(Tail(sorted), t)

\* Mutant of the sort: the tags stay where they are.
sort_by_nothing(tags) == tags

RECURSIVE sort_by(_)
sort_by(tags) ==
    IF tags = <<>> THEN <<>>
    ELSE sort_insert(sort_by(Take(tags, Len(tags) - 1)), tags[Len(tags)])

\* DecodedTags::reorder_date_like.  The tags with a date-like facet end up
\* next to each other, so a sort has compared each of them with another
\* one: when the suffix of one cannot be split off, the closure panics.
DecodedTags_reorder_date_like(d) ==
    IF \E i, j \in 1..Len(d.tags) : i # j /\ reorder_cmp(d.tags[i], d.tags[j]) = "Panic"
    THEN ScanPanic
    ELSE [d EXCEPT !.tags = sort_by(d.tags)]

\* reorder_and_dedup: the tags are sorted, then the duplicates removed.
DecodedTags_reorder_and_dedup(d, dbg) ==
    LET reordered == DecodedTags_reorder_date_like(d)
    IN  IF reordered.kind = "Panic" THEN ScanPanic
        ELSE DecodedTags_dedup(reordered, dbg)

(***************************************************************************)
(* The callers of the codec: a caller holds a Tag it constructed, or a     *)
(* token it read, and applies one operation of the API to it.              *)
(***************************************************************************)
\* Bounds of the inputs.
MaxTokenLen == 3

MaxProps == 2

\* All byte strings over alphabet A of length at most n.
Strings(A, n) == UNION {[1..k -> A] : k \in 0..n}

\* The characters short tokens are spelled with.
TokenAlphabet ==
    {Ch(" "), Ch("#"), Ch("%"), Ch("/"), Ch(":"), Ch("?"), Ch("="), Ch("&"),
     Ch("."), Ch("x"), Ch("2"), Ch("0")}

\* Longer tokens: date-like facets, percent escapes, surrounding white space.
LongTokens ==
    {B(<<"~", "2", "0", "2", "2", "0", "6", "2", "5">>),
     B(<<"x", "~", "2", "0", "2", "2", "0", "6", "2", "5", "?", "k", "=", "v", "#", "x">>),
     B(<<"x", "%", "2", "0", "~", "2", "0", "2", "2", "0", "6", "2", "5">>),
     B(<<"x", "%", "0", "9", "~", "2", "0", "2", "2", "0", "6", "2", "5">>),
     B(<<"x", "%", "0", "A", "~", "2", "0", "2", "2", "0", "6", "2", "5">>),
     B(<<"x", "%", "C", "2", "%", "A", "0", "~", "2", "0", "2", "2", "0", "6", "2", "5">>),
     B(<<"x", "%", "2", "0", "2", "0", "2", "2", "0", "6", "2", "5", "#", "x">>),
     B(<<"x", "%", "0", "9", "2", "0", "2", "2", "0", "6", "2", "5", "#", "x">>),
     B(<<"x", "%", "0", "A", "2", "0", "2", "2", "0", "6", "2", "5", "#", "x">>),
     B(<<"x", "%", "2", "0", "2", "0", "2", "2", "0", "6", "2", "5">>),
     B(<<"0", "1", "2", "3", "4", "5", "6", "7">>),
     B(<<"0", "1", "2", "3", "4", "5", "6", "7", "?", "#">>),
     B(<<"~", "2", "0", "2", "2", "0", "6", "2", "5", "?">>),
     B(<<"~", "2", "0", "2", "2", "0", "6", "2", "5", "#">>),
     B(<<"~", "2", "0", "2", "2", "0", "6", "2", "5", "?", "#">>),
     B(<<"x", "~", "2", "0", "2", "2", "0", "6", "2", "5", "?", "#">>),
     B(<<"%", "2", "F", "x", "#", "x">>),
     B(<<"#", "%", "2", "F", "x">>),
     B(<<"%", "F", "F", "#", "x">>),
     B(<<"#", "%", "C", "2", "%", "A", "0", "x">>),
     B(<<"x", "?", "%", "2", "F", "k", "=", "v">>),
     B(<<"x", "?", "k", "=", "v", "&", "k", "=", "y">>),
     B(<<"x", "?", "k", "=", "v", "=", "y">>),
     B(<<"x", "y", ":", "#", "x">>),
     B(<<"x", ":", "y", "%", "2", "0", "~", "2", "0", "2", "2", "0", "6", "2", "5">>),
     B(<<"x", "?", "=", "v">>),
     B(<<"x", "?", "/", "k", "=", "v">>),
     B(<<"x", ":", "/", "/", "y", "/", "k", "#", "x">>),
     B(<<" ", "#", "x", "y">>),
     B(<<"#", "x", "y", " ">>),
     B(<<"\t", "x", "?", "k", "=", "v", "\n">>),
     <<194, 160, 35, 120>>}

TokenInputs == Strings(TokenAlphabet, MaxTokenLen) \cup LongTokens

\* A no-break space, U+00A0: white space of two bytes.
NBSP == <<194, 160>>

\* The fields callers build tags from.  Every field keeps the contract the
\* accessors assert: label and facet trimmed, the facet without a leading
\* slash, every property key trimmed and non-empty.
LabelInputs ==
    {<<>>, B(<<"x">>), B(<<"x", " ", "y">>), B(<<"%", "2", "0">>), B(<<":">>),
     B(<<"#">>), B(<<"x">>) \o NBSP \o B(<<"\t", "y">>)}

FacetInputs ==
    {<<>>, B(<<"x">>), B(<<".">>), B(<<"x", ":", "y">>), B(<<"x", "/", "y">>),
     B(<<"x", "?", "#">>), B(<<"%", "2", "F">>),
     B(<<"~", "2", "0", "2", "2", "0", "6", "2", "5">>),
     B(<<"x", " ", "y", "~", "2", "0", "2", "2", "0", "6", "2", "5">>),
     B(<<"2", "0", "2", "2", "0", "6", "2", "5">>)}

KeyInputs == {B(<<"k">>), B(<<"k", "=">>), B(<<"&">>)}

ValInputs == {<<>>, B(<<"v", " ", "#">>)}

PropInputs == [key : KeyInputs, val : ValInputs]

PropsInputs == UNION {[1..n -> PropInputs] : n \in 0..MaxProps}

TagInputs == [label : LabelInputs, facet : FacetInputs, props : PropsInputs]

NoResult == [kind |-> "None", tag |-> DefaultTag]

NoDecoded == [kind |-> "None", tags |-> <<>>, undecoded_prefix |-> <<>>]

Init ==
    /\ debug \in BOOLEAN
    /\ \/ given = "tag" /\ tag \in TagInputs /\ input = <<>>
       \/ given = "token" /\ tag = DefaultTag /\ input \in TokenInputs
    /\ op = "new"
    /\ result = NoResult
    /\ output = <<>>
    /\ decoded = NoDecoded
    /\ previous = NoDecoded

\* The caller asks tag.is_valid().
IsValid ==
    /\ given = "tag" /\ op = "new"
    /\ op' = "is_valid"
    /\ result' = [kind |-> Tag_is_valid_call(tag, debug), tag |-> tag]
    /\ UNCHANGED <<debug, given, tag, input, output, decoded, previous>>

\* The caller encodes its tag; the tag must be valid.
Encode ==
    /\ given = "tag" /\ op = "new"
    /\ Tag_is_valid(tag)
    /\ LET written == Tag_encode_into(tag, debug)
       IN  /\ output' = written.str
           /\ result' = [kind |-> written.kind, tag |-> tag]
    /\ op' = "encode"
    /\ UNCHANGED <<debug, given, tag, input, decoded, previous>>

\* The caller decodes what the encoder wrote.
DecodeEncoded ==
    /\ op = "encode" /\ result.kind = "Ok"
    /\ input' = output
    /\ result' = Tag_decode_str(output, debug)
    /\ op' = "decode_encoded"
    /\ UNCHANGED <<debug, given, tag, output, decoded, previous>>

\* The caller encodes the decoded tag again (tests: reencode).
Reencode ==
    /\ op = "decode_encoded" /\ result.kind = "Ok"
    /\ LET written == Tag_encode_into(result.tag, debug)
       IN  /\ output' = written.str
           /\ result' = [kind |-> written.kind, tag |-> result.tag]
    /\ op' = "reencode"
    /\ UNCHANGED <<debug, given, tag, input, decoded, previous>>

\* The caller decodes its token strictly.
DecodeStr ==
    /\ given = "token" /\ op = "new"
    /\ result' = Tag_decode_str(input, debug)
    /\ op' = "decode_str"
    /\ UNCHANGED <<debug, given, tag, input, output, decoded, previous>>

\* The caller parses its token with str::parse (FromStr).
FromStr ==
    /\ given = "token" /\ op = "new"
    /\ result' = Tag_from_str(input, debug)
    /\ op' = "from_str"
    /\ UNCHANGED <<debug, given, tag, input, output, decoded, previous>>

Next == IsValid \/ Encode \/ DecodeEncoded \/ Reencode \/ DecodeStr \/ FromStr

Spec == Init /\ [][Next]_vars

(***************************************************************************)
(* The callers of the scanner: a caller holds a free text (a comment       *)
(* field) and scans it for the tags at its end.                            *)
(***************************************************************************)
\* Bound of the texts: the number of pieces a text is put together from.
MaxTextPieces == 4

\* Tokens and white space of the texts.
TextPieces ==
    {B(<<"#", "x">>), B(<<"#", "y">>), B(<<"x">>), B(<<"x", ":">>),
     B(<<"~", "2", "0", "2", "2", "0", "6", "2", "5">>),
     B(<<" ">>), B(<<"\n">>), B(<<"\t">>), NBSP}

RECURSIVE Concat(_)
Concat(ps) == IF ps = <<>> THEN <<>> ELSE Head(ps) \o Concat(Tail(ps))

\* Longer texts: a token that decodes left of one that does not, a run of
\* three tags, tags behind a word with a colon, tags on two lines.
LongTexts ==
    {B(<<"#", "x", " ", "x", " ", "#", "y">>),
     B(<<"#", "x", " ", "x", " ", "#", "y", " ", "#", "x">>),
     B(<<"#", "x", " ", "#", "y", " ", "x", "?", "k", "=", "v">>),
     B(<<"x", " ", "y", " ", " ", "#", "y", "\t", "#", "x", " ">>),
     B(<<"x", ":", " ", "#", "x", " ", "#", "y">>),
     B(<<"#", "x", " ", "x", ":", " ", "x", " ", "#", "y">>),
     B(<<"#", "x", "\n", "#", "y", " ", "#", "x">>),
     B(<<"#", "x">>) \o NBSP \o B(<<"x", " ", "#", "y">>),
     B(<<"x", " ", "#", "%", "2", "5", "2", "0">>),
     B(<<"x", " ", ".", "/", "x", "#", "y", " ", "#", "x">>)}

TextInputs == {Concat(ps) : ps \in Strings(TextPieces, MaxTextPieces)} \cup LongTexts

\* Bound of the tag lists a caller puts together.
MaxTags == 3

\* A facet "~" and eight Arabic-Indic digits (U+0660, two bytes each),
\* which \d of the regex matches.
ArabicDateFacet == <<DATE_SEPARATOR>> \o Concat([i \in 1..DATE_DIGITS |-> <<217, 160>>])

\* The valid tags of those lists: with and without a date-like facet, two
\* with the same suffix, two with the same encoding "?k==v#x".
TagPool ==
    {[DefaultTag EXCEPT !.label = B(<<"x">>)],
     [DefaultTag EXCEPT !.label = B(<<"y">>), !.facet = B(<<"x">>)],
     [DefaultTag EXCEPT !.facet = B(<<"~", "2", "0", "2", "2", "0", "1", "0", "1">>)],
     [DefaultTag EXCEPT !.facet = B(<<"x", "~", "2", "0", "2", "2", "0", "1", "0", "1">>)],
     [DefaultTag EXCEPT !.label = B(<<"x">>),
                        !.facet = B(<<"x", "~", "2", "0", "2", "2", "1", "2", "3", "1">>)],
     [DefaultTag EXCEPT !.facet = B(<<"y", "~", "9", "9", "9", "9", "9", "9", "9", "9">>)],
     [DefaultTag EXCEPT !.label = B(<<"x">>),
                        !.props = <<[key |-> B(<<"k", "=">>), val |-> B(<<"v">>)]>>],
     [DefaultTag EXCEPT !.label = B(<<"x">>),
                        !.props = <<[key |-> B(<<"k">>), val |-> B(<<"=", "v">>)]>>],
     [DefaultTag EXCEPT !.facet = ArabicDateFacet]}

\* The undecoded prefixes of those values: none, one that ends in a word,
\* one that ends in white space.
PrefixInputs == {<<>>, B(<<"x">>), B(<<"x", "\n">>)}

DecodedInputs ==
    {DecodedTags(tags, prefix) : tags \in Strings(TagPool, MaxTags), prefix \in PrefixInputs}

ScanInit ==
    /\ debug \in BOOLEAN
    /\ \/ given = "text" /\ input \in TextInputs /\ decoded = NoDecoded
       \/ given = "tags" /\ input = <<>> /\ decoded \in DecodedInputs
    /\ tag = DefaultTag
    /\ op = "new"
    /\ result = NoResult
    /\ output = <<>>
    /\ previous = NoDecoded

\* DecodedTags::decode_str(text)
Scan ==
    /\ given = "text" /\ op = "new"
    /\ decoded' = DecodedTags_decode_str(input, debug)
    /\ op' = "scan"
    /\ UNCHANGED <<debug, given, tag, input, result, output, previous>>

\* The caller holds a DecodedTags value no operation has changed yet.
Fresh ==
    /\ decoded.kind = "Ok"
    /\ (given = "tags" /\ op = "new") \/ op = "scan"

\* decoded.encode_into(&mut output)
EncodeTags ==
    /\ decoded.kind = "Ok"
    /\ Fresh \/ op \in {"dedup", "reorder_date_like"}
    /\ LET written == DecodedTags_encode_into(decoded, debug)
       IN  /\ output' = written.str
           /\ result' = [kind |-> written.kind, tag |-> DefaultTag]
    /\ op' = "encode_into"
    /\ UNCHANGED <<debug, given, tag, input, decoded, previous>>

\* The caller scans what it wrote from the scan of its text.
Rescan ==
    /\ given = "text" /\ op = "encode_into" /\ result.kind = "Ok"
    /\ previous = NoDecoded
    /\ previous' = decoded
    /\ decoded' = DecodedTags_decode_str(output, debug)
    /\ op' = "rescan"
    /\ UNCHANGED <<debug, given, tag, input, result, output>>

\* decoded.dedup()
Dedup ==
    /\ Fresh
    /\ previous' = decoded
    /\ decoded' = DecodedTags_dedup(decoded, debug)
    /\ op' = "dedup"
    /\ UNCHANGED <<debug, given, tag, input, result, output>>

\* decoded.reorder_date_like()
ReorderDateLike ==
    /\ Fresh
    /\ previous' = decoded
    /\ decoded' = DecodedTags_reorder_date_like(decoded)
    /\ op' = "reorder_date_like"
    /\ UNCHANGED <<debug, given, tag, input, result, output>>

\* decoded.reorder_and_dedup(), a first and a second time
ReorderAndDedup ==
    /\ decoded.kind = "Ok"
    /\ Fresh \/ op = "reorder_and_dedup"
    /\ previous' = decoded
    /\ decoded' = DecodedTags_reorder_and_dedup(decoded, debug)
    /\ op' = IF op = "reorder_and_dedup" THEN "reorder_and_dedup_again"
             ELSE "reorder_and_dedup"
    /\ UNCHANGED <<debug, given, tag, input, result, output>>

ScanNext == Scan \/ EncodeTags \/ Rescan \/ Dedup \/ ReorderDateLike \/ ReorderAndDedup

ScanSpec == ScanInit /\ [][ScanNext]_vars

(***************************************************************************)
(* The claims about the codec, checked under Spec.                         *)
(***************************************************************************)
\* What decode_str reads from a token: the percent-decoded fragment and the
\* percent-decoded path without the root slash.
DecodedLabel(encoded) == percent_decode(UrlParse(encoded).fragment)

DecodedFacet(encoded) ==
    LET path == UrlParse(encoded).path
    IN  IF path = <<>> THEN <<>> ELSE percent_decode(Tail(path))

\* The token passes the first three checks of decode_str.
PassesPreconditions(encoded) ==
    /\ encoded # <<>>
    /\ WsLenAt(encoded, 1) = 0
    /\ WsLenBefore(encoded, Len(encoded)) = 0
    /\ encoded[1] # Ch("/")

\* C1: round trip.  For every valid tag whose label, facet and property
\* names are trimmed and do not start with '/', and whose property names
\* are non-empty, decoding the encoded tag gives Ok with the same tag.
C1_Scope(t) ==
    /\ Tag_is_valid(t)
    /\ label_is_valid(t.label)
    /\ facet_is_valid(t.facet)
    /\ \A i \in 1..Len(t.props) : is_name_valid(t.props[i].key) /\ t.props[i].key # <<>>

C1_RoundTrip ==
    (op = "decode_encoded" /\ C1_Scope(tag)) => result = OkTag(tag)

\* C2: for every string that is the encoding of a valid tag, decode_str
\* succeeds and encoding the decoded tag yields exactly that string.
C2_ReencodeExact ==
    /\ op = "decode_encoded" => result.kind = "Ok"
    /\ op = "reencode" => (result.kind = "Ok" /\ output = input)

\* C3: Tag::is_valid is true exactly when the label is non-empty, or the
\* facet is non-empty and the tag has a property or the facet has a
\* date-like suffix; the empty tag, a tag with only a facet that is not
\* date-like and a tag with only properties are invalid.
C3_IsValid ==
    op = "is_valid" =>
        /\ result.kind \in {"true", "false"}
        /\ result.kind = "true" <=>
               \/ Len(tag.label) > 0
               \/ /\ Len(tag.facet) > 0
                  /\ (Len(tag.props) > 0 \/ facet_has_date_like_suffix(tag.facet))
        /\ tag = DefaultTag => result.kind = "false"
        /\ (tag.label = <<>> /\ tag.props = <<>> /\ ~facet_has_date_like_suffix(tag.facet))
               => result.kind = "false"
        /\ (tag.label = <<>> /\ tag.facet = <<>>) => result.kind = "false"

\* C3 witness: a tag without a label that is valid by its date-like facet alone.
C3_Witness ==
    /\ op = "is_valid" /\ result.kind = "true"
    /\ tag.label = <<>> /\ tag.props = <<>> /\ tag.facet # <<>>

\* C4: decode_str returns a parse error for the empty string, for every
\* input with leading or trailing white space and for every input whose
\* first byte is '/'.
C4_StrictPreconditions ==
    (op = "decode_str" /\ ~PassesPreconditions(input)) => result.kind = "Parse"

\* C4 witness: a token with a leading slash was rejected as a parse error.
C4_Witness ==
    /\ op = "decode_str" /\ result.kind = "Parse"
    /\ input = B(<<"/", "#", "x">>)

\* C5: str::parse gives what decode_str gives for the trimmed input; strict
\* decode_str rejects an input with surrounding white space.
C5_LenientParse ==
    /\ op = "from_str" => result = Tag_decode_str(trim(input), debug)
    /\ (op = "decode_str" /\ trim(input) # input) => result.kind = "Parse"
    /\ (op = "from_str" /\ input \in {B(<<" ", "#", "x", "y">>), B(<<"#", "x", "y", " ">>)})
           => result = OkTag([DefaultTag EXCEPT !.label = B(<<"x", "y">>)])

\* C5 witness: " #xy" parsed to the tag with the label "xy".
C5_Witness ==
    /\ op = "from_str" /\ input = B(<<" ", "#", "x", "y">>)
    /\ result.kind = "Ok" /\ result.tag.label = B(<<"x", "y">>)

WsBeforeDateSuffix(f) ==
    /\ Len(f) >= 10
    /\ \A i \in (Len(f) - 7)..Len(f) : f[i] \in 48..57
    /\ f[Len(f) - 8] = DATE_SEPARATOR
    /\ f[Len(f) - 9] \in {32, 9, 10}

\* A facet ends in 8 ASCII digits that follow a space, a tab or a newline.
WsBeforeDigits(f) ==
    /\ Len(f) >= 9
    /\ \A i \in (Len(f) - 7)..Len(f) : f[i] \in 48..57
    /\ f[Len(f) - 8] \in {32, 9, 10}

\* C7: decode_str returns a parse error for every token whose decoded facet
\* ends in the separator and 8 digits with white space right before the
\* separator; a facet that ends in white space and 8 digits without the
\* separator is not rejected for that: with a label it decodes.
C7_InvalidDateSuffix ==
    op = "decode_str" =>
        /\ (PassesPreconditions(input) /\ WsBeforeDateSuffix(DecodedFacet(input)))
               => result.kind = "Parse"
        /\ (/\ PassesPreconditions(input)
            /\ WsBeforeDigits(DecodedFacet(input))
            /\ facet_is_valid(DecodedFacet(input))
            /\ DecodedLabel(input) = B(<<"x">>)
            /\ UrlParse(input).query = <<>>)
               => (result.kind = "Ok" /\ result.tag.facet = DecodedFacet(input))

\* The syntactic checks of a token as the claim lists them: white space,
\* leading slash, URL parse as a relative reference, percent/UTF-8
\* decoding, label, facet and property-name validity, date-suffix check.
SyntacticName(seg) ==
    LET name == percent_decode(SplitOn(seg, Ch("="))[1])
    IN  IsUtf8(name) /\ is_name_valid(name)

SyntacticValue(seg) ==
    LET parts == SplitOn(seg, Ch("="))
    IN  Len(parts) <= 2 /\ (Len(parts) = 2 => IsUtf8(percent_decode(parts[2])))

PassesSyntacticChecks(encoded) ==
    /\ PassesPreconditions(encoded)
    /\ SchemeEnd(UrlInput(encoded)) = 0
    /\ UrlParse(encoded).ok
    /\ IsUtf8(DecodedLabel(encoded)) /\ label_is_valid(DecodedLabel(encoded))
    /\ IsUtf8(DecodedFacet(encoded)) /\ facet_is_valid(DecodedFacet(encoded))
    /\ ~WsBeforeDateSuffix(DecodedFacet(encoded))
    /\ LET query == UrlParse(encoded).query
           segs == SplitOn(query, Ch("&"))
       IN  query # <<>> =>
               \A i \in 1..Len(segs) : SyntacticName(segs[i]) /\ SyntacticValue(segs[i])

\* C8: decode_str returns InvalidTag exactly when the token passes every
\* syntactic check and the assembled tag fails Tag::is_valid; every
\* syntactic failure is reported as a parse error.
C8_ErrorKinds ==
    op = "decode_str" =>
        /\ ~PassesSyntacticChecks(input) => result.kind = "Parse"
        /\ result.kind = "InvalidTag" => PassesSyntacticChecks(input)
        /\ (/\ PassesSyntacticChecks(input)
            /\ ~Tag_is_valid([label |-> DecodedLabel(input),
                              facet |-> DecodedFacet(input),
                              props |-> decode_props(UrlParse(input).query).props]))
               => result.kind = "InvalidTag"

\* C9: decode_str is total: for every input, in a debug and in a release
\* build, it returns Ok or Err and never panics.
C9_NeverPanics ==
    op = "decode_str" => result.kind \in {"Ok", "Parse", "InvalidTag"}

(***************************************************************************)
(* The claims about the scanner, checked under ScanSpec.                   *)
(***************************************************************************)
\* The white-space-separated tokens of a text, from left to right.
RECURSIVE Tokens(_, _, _)
Tokens(s, i, cur) ==
    IF i > Len(s) THEN (IF cur = <<>> THEN <<>> ELSE <<cur>>)
    ELSE IF WsLenAt(s, i) > 0
         THEN (IF cur = <<>> THEN <<>> ELSE <<cur>>) \o Tokens(s, i + WsLenAt(s, i), <<>>)
    ELSE Tokens(s, i + 1, Append(cur, s[i]))

TokensOf(s) == Tokens(s, 1, <<>>)

Decodes(token) == Tag_decode_str(token, debug).kind = "Ok"

\* The length of the longest run of tokens at the end that all decode.
RECURSIVE TrailingRun(_)
TrailingRun(toks) ==
    IF toks = <<>> \/ ~Decodes(toks[Len(toks)]) THEN 0
    ELSE 1 + TrailingRun(Take(toks, Len(toks) - 1))

\* C10: DecodedTags::decode_str returns, in the order of the text, the
\* strict decodes of the longest run of white-space-separated tokens at
\* the end of the text that all decode; the rightmost token that fails to
\* decode and every token left of it stay in undecoded_prefix.
C10_MaximalTrailingRun ==
    op = "scan" =>
        LET toks == TokensOf(input)
            n == TrailingRun(toks)
            rest == Len(toks) - n
        IN  /\ decoded.kind = "Ok"
            /\ Len(decoded.tags) = n
            /\ \A j \in 1..n : Tag_decode_str(toks[rest + j], debug) = OkTag(decoded.tags[j])
            /\ TokensOf(decoded.undecoded_prefix) = Take(toks, rest)

\* C11: after DecodedTags::decode_str(s) has returned, undecoded_prefix is
\* empty or it is, byte for byte, a prefix of s that has a character which
\* is not white space; it is empty exactly when every token of s decoded
\* as a tag (a text of white space has no token).
C11_UndecodedPrefix ==
    (op = "scan" /\ decoded.kind = "Ok") =>
        LET p == decoded.undecoded_prefix
            toks == TokensOf(input)
        IN  /\ \/ p = <<>>
               \/ /\ Len(p) <= Len(input)
                  /\ p = Take(input, Len(p))
                  /\ \E i \in 1..Len(p) : WsLenAt(p, i) = 0 /\ WsLenBefore(p, i) = 0
            /\ p = <<>> <=> \A i \in 1..Len(toks) : Decodes(toks[i])

\* C11 witness: of "x y  #y<TAB>#x " the prefix "x y  " is left, with its
\* white space inside and at its end.
C11_Witness ==
    /\ op = "scan" /\ decoded.kind = "Ok" /\ Len(decoded.tags) = 2
    /\ input = B(<<"x", " ", "y", " ", " ", "#", "y", "\t", "#", "x", " ">>)
    /\ decoded.undecoded_prefix = B(<<"x", " ", "y", " ", " ">>)

\* C12: DecodedTags::decode_str is total: for every text, also one whose
\* tokens are separated by white space of more than one byte, it returns a
\* DecodedTags value and never panics.
C12_ScanTotal ==
    (/\ op = "scan"
     /\ \A i \in 1..Len(TokensOf(input)) :
            Tag_decode_str(TokensOf(input)[i], debug).kind # "Panic")
        => decoded.kind = "Ok"

\* The encoded tags of a list, one space between two of them.
RECURSIVE JoinedTags(_)
JoinedTags(tags) ==
    IF tags = <<>> THEN <<>>
    ELSE IF Len(tags) = 1 THEN Tag_encode(tags[1])
    ELSE Tag_encode(tags[1]) \o <<32>> \o JoinedTags(Tail(tags))

\* C13: DecodedTags::encode_into writes undecoded_prefix as it is, then
\* the encoded tags in the order of the list with exactly one space
\* between two of them; a space stands between the prefix and the first
\* tag if and only if the prefix is not empty and does not end in white
\* space; nothing follows the last tag.
C13_EncodeTags ==
    (op = "encode_into" /\ result.kind = "Ok") =>
        LET p == decoded.undecoded_prefix
            space == IF /\ decoded.tags # <<>>
                        /\ p # <<>>
                        /\ WsLenBefore(p, Len(p)) = 0
                     THEN <<32>> ELSE <<>>
        IN  output = p \o space \o JoinedTags(decoded.tags)

\* C13 witness: after the prefix "x<LF>", which ends in white space, two
\* tags were written with no space before the first.
C13_Witness ==
    /\ op = "encode_into" /\ result.kind = "Ok"
    /\ decoded.undecoded_prefix = B(<<"x", "\n">>)
    /\ Len(decoded.tags) = 2
    /\ output = B(<<"x", "\n", "#", "x", " ", "x", "#", "y">>)

\* C14: for every text s, with d = DecodedTags::decode_str(s) and r the
\* text d.encode_into writes, DecodedTags::decode_str(r) is equal to d: the
\* same tags and the same undecoded_prefix.
C14_IdempotentRescan ==
    op = "rescan" => decoded = previous

\* A tag whose facet has a date-like suffix.
DateLike(t) == facet_has_date_like_suffix(t.facet)

\* reorder_date_like has returned.
Reordered == op = "reorder_date_like" /\ decoded.kind = "Ok"

\* C15, as the spec states it: after reordering, every tag whose facet has
\* a date-like suffix stands before every tag whose facet has none.
C15_DateLikeFirst ==
    Reordered =>
        \A i, j \in 1..Len(decoded.tags) :
            (DateLike(decoded.tags[i]) /\ ~DateLike(decoded.tags[j])) => i < j

\* C15, amended: after reordering, no tag whose facet has a date-like
\* suffix stands before a tag whose facet has none.
C15_DateLikeNotFirst ==
    Reordered =>
        \A i, j \in 1..Len(decoded.tags) :
            (DateLike(decoded.tags[i]) /\ ~DateLike(decoded.tags[j])) => j < i

\* C15 witness: a list that began with a date-like tag was reordered, and
\* its first tag now has no date-like facet.
C15_Witness ==
    /\ Reordered /\ Len(decoded.tags) >= 2
    /\ DateLike(previous.tags[1]) /\ ~DateLike(decoded.tags[1])

\* C16, as the code's doc comment and the tests state it: after
\* reordering, the list is the tags without a date-like facet followed by
\* the tags with a date-like facet, and it has the tags it had before.
C16_DateLikeLast ==
    Reordered =>
        /\ \E k \in 0..Len(decoded.tags) :
               /\ \A i \in 1..k : ~DateLike(decoded.tags[i])
               /\ \A i \in (k + 1)..Len(decoded.tags) : DateLike(decoded.tags[i])
        /\ Len(decoded.tags) = Len(previous.tags)
        /\ \A t \in TagPool :
               Cardinality({i \in 1..Len(decoded.tags) : decoded.tags[i] = t})
                   = Cardinality({i \in 1..Len(previous.tags) : previous.tags[i] = t})

\* C16 witness: of three tags the date-like one, which stood in the
\* middle, is the last.
C16_Witness ==
    /\ Reordered /\ Len(decoded.tags) = 3
    /\ ~DateLike(previous.tags[1]) /\ DateLike(previous.tags[2]) /\ ~DateLike(previous.tags[3])
    /\ decoded.tags = <<previous.tags[1], previous.tags[3], previous.tags[2]>>

\* The number a string of ASCII digits spells.
RECURSIVE DigitsValue(_)
DigitsValue(s) ==
    IF s = <<>> THEN 0 ELSE 10 * DigitsValue(Take(s, Len(s) - 1)) + (s[Len(s)] - 48)

\* The eight digits at the end of a facet, as a number.
SuffixValue(t) == DigitsValue(Drop(t.facet, Len(t.facet) - DATE_DIGITS))

\* C17: after reordering, the tags whose facets have a date-like suffix
\* stand in descending order of the 8 digits, whatever the prefix of the
\* facet and whether or not the digits are a date of the calendar:
\* 99999999 before 20221231 before 20220101.
C17_SuffixDescending ==
    Reordered =>
        \A i, j \in 1..Len(decoded.tags) :
            (i < j /\ DateLike(decoded.tags[i]) /\ DateLike(decoded.tags[j]))
                => SuffixValue(decoded.tags[i]) >= SuffixValue(decoded.tags[j])

\* C17 witness: 20220101, 99999999, 20221231 became 99999999, 20221231,
\* 20220101.
C17_Witness ==
    /\ Reordered /\ Len(decoded.tags) = 3
    /\ \A i \in 1..3 : DateLike(previous.tags[i])
    /\ SuffixValue(previous.tags[1]) = 20220101
    /\ SuffixValue(previous.tags[2]) = 99999999
    /\ SuffixValue(previous.tags[3]) = 20221231
    /\ SuffixValue(decoded.tags[1]) = 99999999
    /\ SuffixValue(decoded.tags[2]) = 20221231
    /\ SuffixValue(decoded.tags[3]) = 20220101

RECURSIVE FirstOccurrences(_)
FirstOccurrences(tags) ==
    IF tags = <<>> THEN <<>>
    ELSE LET n == Len(tags)
             front == Take(tags, n - 1)
             last == tags[n]
         IN  IF \E i \in 1..(n - 1) :
                    /\ front[i].label = last.label
                    /\ front[i].facet = last.facet
                    /\ front[i].props = last.props
             THEN FirstOccurrences(front)
             ELSE Append(FirstOccurrences(front), last)

\* C19: dedup removes a tag if and only if an earlier tag of the list has
\* the same label, the same facet and the same properties in the same
\* order; the first occurrences keep their order, and two tags that differ
\* in a field both stay, also when their encoded strings are equal.
C19_FieldwiseDedup ==
    (op = "dedup" /\ decoded.kind = "Ok") =>
        /\ decoded.tags = FirstOccurrences(previous.tags)
        /\ decoded.undecoded_prefix = previous.undecoded_prefix

\* name=value of the properties, joined by '&'.
RECURSIVE LayoutProps(_)
LayoutProps(props) ==
    LET n == Len(props)
        last == percent_encode(props[n].key, QUERY) \o <<61>>
                    \o percent_encode(props[n].val, QUERY)
    IN  IF n = 1 THEN last ELSE LayoutProps(Take(props, n - 1)) \o <<38>> \o last

\* C20: Tag::encode_into writes the encoded facet, then '?' and the
\* properties if and only if the tag has a property, then '#' and the
\* encoded label if and only if the label is not empty; the properties are
\* name=value joined by '&' in their order, repeated names kept.  A tag of
\* a label alone is '#label', a tag without properties and label is the
\* encoded facet.
C20_TokenLayout ==
    (op = "encode" /\ result.kind = "Ok") =>
        /\ output = percent_encode(tag.facet, PATH)
                      \o (IF Len(tag.props) > 0 THEN <<63>> \o LayoutProps(tag.props) ELSE <<>>)
                      \o (IF Len(tag.label) > 0
                          THEN <<35>> \o percent_encode(tag.label, FRAGMENT) ELSE <<>>)
        /\ (tag.facet = <<>> /\ tag.props = <<>>)
               => output = <<35>> \o percent_encode(tag.label, FRAGMENT)
        /\ (tag.label = <<>> /\ tag.props = <<>>) => output = percent_encode(tag.facet, PATH)

\* C20 witness: a tag with a facet, two properties of the same name and
\* different values, and a label was encoded.
C20_Witness ==
    /\ op = "encode" /\ result.kind = "Ok"
    /\ tag.facet = B(<<"x">>) /\ tag.label = B(<<"x">>)
    /\ Len(tag.props) = 2
    /\ tag.props[1].key = B(<<"k">>) /\ tag.props[2].key = B(<<"k">>)
    /\ tag.props[1].val # tag.props[2].val
    /\ output = B(<<"x", "?", "k", "=", "v", "%", "2", "0", "%", "2", "3", "&", "k", "=",
                     "#", "x">>)

\* How often the byte b occurs in s.
RECURSIVE CountByte(_, _)
CountByte(s, b) ==
    IF s = <<>> THEN 0
    ELSE (IF Head(s) = b THEN 1 ELSE 0) + CountByte(Tail(s), b)

\* The bytes of the fields of a tag, before they are escaped.
RECURSIVE FieldBytes(_)
FieldBytes(props) ==
    IF props = <<>> THEN 0
    ELSE Len(Head(props).key) + Len(Head(props).val) + FieldBytes(Tail(props))

\* What stands between the first '?' of a token and its first '#'.
PropsSegment(token) ==
    LET rest == Drop(token, IndexOf(token, {63}))
    IN  Take(rest, IndexOf(rest, {35}) - 1)

\* C21: in an encoded tag the delimiters are unambiguous.  Every '%' of the
\* token starts an escape (a '%' of a field is written as an escape, so the
\* token is three bytes long for every '%' in it and one byte for every
\* other byte of a field or delimiter), the encoded facet has no '?' and
\* no '#', and the properties segment has one '=' for each property and
\* one '&' between two properties.
C21_UnambiguousDelimiters ==
    (op = "encode" /\ result.kind = "Ok") =>
        LET delimiters == (IF Len(tag.props) > 0 THEN 2 * Len(tag.props) ELSE 0)
                            + (IF Len(tag.label) > 0 THEN 1 ELSE 0)
            raw == Len(tag.facet) + Len(tag.label) + FieldBytes(tag.props)
        IN  /\ Len(output) = raw + delimiters + 2 * CountByte(output, 37)
            /\ CountByte(Take(output, Len(percent_encode(tag.facet, PATH))), 63) = 0
            /\ CountByte(Take(output, Len(percent_encode(tag.facet, PATH))), 35) = 0
            /\ Len(tag.props) > 0 =>
                   /\ CountByte(PropsSegment(output), 61) = Len(tag.props)
                   /\ CountByte(PropsSegment(output), 38) = Len(tag.props) - 1

(***************************************************************************)
(* The facet module (facet/mod.rs: separator '@').                         *)
(***************************************************************************)

DATE_SUFFIX_SEPARATOR == 64

\* DATE_LIKE_SUFFIX_REGEX_STR: (^|[^\s])@\d{8}$ matches somewhere in s.
DATE_LIKE_SUFFIX_REGEX_STR(s) ==
    LET d == DigitsStart(s, Len(s), DATE_DIGITS)
        p == IF d >= 2 /\ s[d - 1] = DATE_SUFFIX_SEPARATOR THEN d - 1 ELSE 0
    IN  p > 0 /\ WsLenBefore(s, p - 1) = 0

\* facet::has_date_like_suffix: "true", "false", or the panic of the
\* debug_assert on a facet that is not valid.
has_date_like_suffix(facet, dbg) ==
    IF dbg /\ ~facet_is_valid(facet) THEN "Panic"
    ELSE IF DATE_LIKE_SUFFIX_REGEX_STR(facet) THEN "true"
    ELSE "false"

NoSplit(kind) == [kind |-> kind, prefix |-> <<>>, suffix |-> <<>>]

\* facet::try_split_into_prefix_and_date_like_suffix: slicing the facet at
\* prefix_len panics when that byte is inside a character.
try_split_into_prefix_and_date_like_suffix(facet, dbg) ==
    LET prefix_len == Len(facet) - DATE_LIKE_SUFFIX_LEN
        date_suffix == Drop(facet, prefix_len)
    IN  IF dbg /\ ~facet_is_valid(facet) THEN NoSplit("Panic")
        ELSE IF Len(facet) < DATE_LIKE_SUFFIX_LEN THEN NoSplit("None")
        ELSE IF IsCont(facet, prefix_len + 1) THEN NoSplit("Panic")
        ELSE IF \E i \in 1..Len(date_suffix) : date_suffix[i] >= 128 THEN NoSplit("None")
        ELSE [kind |-> "Some", prefix |-> Take(facet, prefix_len), suffix |-> date_suffix]

\* The number that ASCII digits write (all of s must be digits).
RECURSIVE AsciiNumber(_)
AsciiNumber(s) ==
    IF s = <<>> THEN 0 ELSE 10 * AsciiNumber(Take(s, Len(s) - 1)) + (s[Len(s)] - 48)

is_leap_year(year) == (year % 4 = 0 /\ year % 100 # 0) \/ year % 400 = 0

days_in_month(year, month) ==
    IF month = 2 THEN (IF is_leap_year(year) THEN 29 ELSE 28)
    ELSE IF month \in {4, 6, 9, 11} THEN 30
    ELSE 31

NoDate == [kind |-> "None", year |-> 0, month |-> 0, day |-> 0]

\* Date::parse(date_suffix, DATE_SUFFIX_FORMAT).ok() with the format
\* "@[year][month][day]": the literal '@', four digits of a year, two of a
\* month, two of a day, nothing behind them, and the three are a date of
\* the calendar.  (A signed year leaves one byte for the day, which needs
\* two.)
DATE_SUFFIX_FORMAT(date_suffix) ==
    IF /\ Len(date_suffix) = 9
       /\ date_suffix[1] = DATE_SUFFIX_SEPARATOR
       /\ \A i \in 2..9 : date_suffix[i] \in 48..57
    THEN LET year == AsciiNumber(SubSeq(date_suffix, 2, 5))
             month == AsciiNumber(SubSeq(date_suffix, 6, 7))
             day == AsciiNumber(SubSeq(date_suffix, 8, 9))
         IN  IF month \in 1..12 /\ day \in 1..days_in_month(year, month)
             THEN [kind |-> "Some", year |-> year, month |-> month, day |-> day]
             ELSE NoDate
    ELSE NoDate

\* facet::try_split_into_prefix_and_parse_date_suffix
try_split_into_prefix_and_parse_date_suffix(facet, dbg) ==
    LET split == try_split_into_prefix_and_date_like_suffix(facet, dbg)
    IN  IF dbg /\ ~facet_is_valid(facet)
        THEN [kind |-> "Panic", prefix |-> <<>>, date |-> NoDate]
        ELSE IF split.kind # "Some"
        THEN [kind |-> split.kind, prefix |-> <<>>, date |-> NoDate]
        ELSE [kind |-> "Some", prefix |-> split.prefix,
              date |-> DATE_SUFFIX_FORMAT(split.suffix)]

(***************************************************************************)
(* A caller of the facet functions: it holds a facet and asks one of the   *)
(* three functions about it.                                               *)
(***************************************************************************)

\* Bound of the characters in front of the last part of a facet.
MaxPrefixChars == 2

\* Characters of the front: a letter, white space of one and of two bytes,
\* a letter of two bytes (U+00E9), a slash, the separator, a digit.
PrefixChars ==
    {B(<<"x">>), B(<<" ">>), B(<<"\n">>), NBSP, <<195, 169>>, B(<<"/">>), B(<<"@">>),
     B(<<"2">>)}

\* Eight Arabic-Indic digits (U+0660, two bytes each), which \d matches.
ArabicDigits == Concat([i \in 1..DATE_DIGITS |-> <<217, 160>>])

\* Last parts: dates, dates the calendar does not have, leap days, too few
\* and too many digits, no separator or another one, digits that are not
\* ASCII, nothing.
FacetEnds ==
    {B(<<"@", "2", "0", "2", "2", "0", "6", "2", "5">>),
     B(<<"@", "0", "0", "0", "0", "0", "0", "0", "0">>),
     B(<<"@", "9", "9", "9", "9", "9", "9", "9", "9">>),
     B(<<"@", "1", "9", "7", "0", "0", "2", "3", "0">>),
     B(<<"@", "2", "0", "2", "4", "0", "2", "2", "9">>),
     B(<<"@", "2", "0", "2", "2", "0", "2", "2", "9">>),
     B(<<"@", "1", "9", "0", "0", "0", "2", "2", "9">>),
     B(<<"@", "2", "0", "0", "0", "0", "2", "2", "9">>),
     B(<<"@", "2", "0", "2", "2", "0", "4", "3", "1">>),
     B(<<"@", "0", "0", "0", "0", "0", "1", "0", "1">>),
     B(<<"@", "2", "0", "2", "2", "0", "6", "2">>),
     B(<<"@", "2", "0", "2", "2", "0", "6", "2", "x">>),
     B(<<"@", "2", "0", "2", "2", "0", "6", "2">>) \o <<217, 160>>,
     B(<<"2", "0", "2", "2", "0", "6", "2", "5">>),
     B(<<"~", "2", "0", "2", "2", "0", "6", "2", "5">>),
     <<DATE_SUFFIX_SEPARATOR>> \o ArabicDigits,
     <<>>}

FacetTexts ==
    {Concat(cs) \o e : cs \in Strings(PrefixChars, MaxPrefixChars), e \in FacetEnds}

FacetInit ==
    /\ debug \in BOOLEAN
    /\ given = "facet"
    /\ input \in FacetTexts
    /\ tag = DefaultTag
    /\ op = "new"
    /\ result = NoResult
    /\ output = <<>>
    /\ decoded = NoDecoded
    /\ previous = NoDecoded

\* facet::has_date_like_suffix(input)
HasDateLikeSuffix ==
    /\ given = "facet" /\ op = "new"
    /\ result' = [kind |-> has_date_like_suffix(input, debug)]
    /\ op' = "has_date_like_suffix"
    /\ UNCHANGED <<debug, given, tag, input, output, decoded, previous>>

\* facet::try_split_into_prefix_and_date_like_suffix(input)
TrySplit ==
    /\ given = "facet" /\ op = "new"
    /\ result' = try_split_into_prefix_and_date_like_suffix(input, debug)
    /\ op' = "try_split"
    /\ UNCHANGED <<debug, given, tag, input, output, decoded, previous>>

\* facet::try_split_into_prefix_and_parse_date_suffix(input)
TrySplitAndParse ==
    /\ given = "facet" /\ op = "new"
    /\ result' = try_split_into_prefix_and_parse_date_suffix(input, debug)
    /\ op' = "try_split_and_parse"
    /\ UNCHANGED <<debug, given, tag, input, output, decoded, previous>>

FacetNext == HasDateLikeSuffix \/ TrySplit \/ TrySplitAndParse

FacetSpec == FacetInit /\ [][FacetNext]_vars

(***************************************************************************)
(* Claims about the facet functions (FacetSpec).                           *)
(***************************************************************************)

\* s ends with the separator and exactly eight ASCII digits, and the
\* separator is the first character of s or follows a character that is
\* not white space.
EndsWithAsciiDate(s) ==
    LET n == Len(s)
    IN  /\ n >= 9
        /\ s[n - 8] = DATE_SUFFIX_SEPARATOR
        /\ \A i \in (n - 7)..n : s[i] \in 48..57
        /\ WsLenBefore(s, n - 9) = 0

\* C22: has_date_like_suffix(s) is true if and only if s ends with the
\* separator followed by exactly eight ASCII digits and the separator is
\* the first character of s or is preceded by a character that is not
\* white space ("@20220625" and "x@20220625" are date-like, "x @20220625",
\* "x20220625" and "x~20220625" are not); s is a valid facet.
C22_HasDateLikeSuffix ==
    (op = "has_date_like_suffix" /\ facet_is_valid(input)) =>
        /\ result.kind \in {"true", "false"}
        /\ result.kind = "true" <=> EndsWithAsciiDate(input)

\* C23: try_split_into_prefix_and_date_like_suffix(s) returns a pair if
\* and only if s has nine bytes or more and its last nine bytes are ASCII,
\* and then prefix and suffix put together are s and the suffix has nine
\* bytes; s is a valid facet.
C23_LexicalSplit ==
    (op = "try_split" /\ facet_is_valid(input)) =>
        LET n == Len(input)
        IN  /\ result.kind \in {"Some", "None"}
            /\ result.kind = "Some" <=> (n >= 9 /\ \A i \in (n - 8)..n : input[i] < 128)
            /\ result.kind = "Some" =>
                   /\ result.prefix \o result.suffix = input
                   /\ Len(result.suffix) = 9

\* C23, second part: try_split_into_prefix_and_parse_date_suffix returns
\* the prefix of the lexical split whenever that split succeeds, also for
\* the suffixes "@00000000", "@99999999" and "@19700230", which give no
\* date.
C23_ParsedSplit ==
    (op = "try_split_and_parse" /\ facet_is_valid(input)) =>
        LET lexical == try_split_into_prefix_and_date_like_suffix(input, debug)
        IN  lexical.kind = "Some" =>
                   /\ result.kind = "Some"
                   /\ result.prefix = lexical.prefix
                   /\ lexical.suffix \in
                          {B(<<"@", "0", "0", "0", "0", "0", "0", "0", "0">>),
                           B(<<"@", "9", "9", "9", "9", "9", "9", "9", "9">>),
                           B(<<"@", "1", "9", "7", "0", "0", "2", "3", "0">>)}
                       => result.date.kind = "None"
                   /\ result.date.kind = "Some" =>
                          /\ lexical.suffix[1] = DATE_SUFFIX_SEPARATOR
                          /\ \A i \in 2..9 : lexical.suffix[i] \in 48..57

(***************************************************************************)
(* Further claims about the scanner and the tag lists (ScanSpec).          *)
(***************************************************************************)

NonEmptyFirst(a, b) ==
    IF a = b THEN "Equal"
    ELSE IF a = <<>> THEN "Greater"
    ELSE IF b = <<>> THEN "Less"
    ELSE str_cmp(a, b)

\* The tie-break of two tags: by facet, then by label.
TieBreak(a, b) ==
    IF NonEmptyFirst(a.facet, b.facet) # "Equal" THEN NonEmptyFirst(a.facet, b.facet)
    ELSE NonEmptyFirst(a.label, b.label)

\* Two tags the date rules do not order: neither facet is date-like, or
\* both are and end in the same suffix.
DateTie(a, b) ==
    \/ ~DateLike(a) /\ ~DateLike(b)
    \/ /\ DateLike(a) /\ DateLike(b)
       /\ Drop(a.facet, Len(a.facet) - DATE_LIKE_SUFFIX_LEN)
            = Drop(b.facet, Len(b.facet) - DATE_LIKE_SUFFIX_LEN)

\* C25: after reordering, two tags that the date rules do not order stand
\* in the order of the tie-breaks: a tag with a facet before a tag without
\* one, facets in string order, and with equal facets a tag with a label
\* before a tag without one, labels in string order.
C25_TieBreaks ==
    Reordered =>
        \A i, j \in 1..Len(decoded.tags) :
            (i < j /\ DateTie(decoded.tags[i], decoded.tags[j]))
                => TieBreak(decoded.tags[i], decoded.tags[j]) # "Greater"

(***************************************************************************)
(* Further claims about the decoder and the encoder (Spec).                *)
(***************************************************************************)

\* What stands between the first '?' of a token and its '#', when the '?'
\* is in front of the '#': the query as it was written.
RawQuery(token) ==
    LET front == Take(token, IndexOf(token, {35}) - 1)
    IN  Drop(front, IndexOf(front, {63}))

\* C26: every '&' segment of a query that is not empty must have exactly
\* one '='.  Tag::decode_str returns a parse error for a token with a
\* segment of two '=' ("x?k=v=y") and for a token with a segment without
\* '=' ("x?k"); a segment "k=" with an empty value is accepted.
C26_OneEqualsPerSegment ==
    (op = "decode_str" /\ result.kind # "Panic" /\ PassesPreconditions(input)) =>
        LET segments == SplitOn(RawQuery(input), 38)
        IN  (/\ RawQuery(input) # <<>>
             /\ \E i \in 1..Len(segments) : CountByte(segments[i], 61) # 1)
                => result.kind = "Parse"

\* The token with the empty components at its end taken away: a last
\* "?#", "?" or "#".
WithoutEmptyComponents(token) ==
    LET n == Len(token)
    IN  IF n >= 2 /\ token[n - 1] = 63 /\ token[n] = 35 THEN Take(token, n - 2)
        ELSE IF n >= 1 /\ token[n] \in {63, 35} THEN Take(token, n - 1)
        ELSE token

\* C27: empty components are skipped.  When a token X without '?' and '#'
\* decodes to a tag, then "X?", "X#" and "X?#" decode to the same tag, a
\* tag without properties and label; and "?#label" decodes to what
\* "#label" decodes to.
C27_EmptyComponentsSkipped ==
    op = "decode_str" =>
        LET X == WithoutEmptyComponents(input)
        IN  /\ (/\ X # input
                /\ CountByte(X, 63) = 0 /\ CountByte(X, 35) = 0
                /\ Tag_decode_str(X, debug).kind = "Ok")
                   => /\ result = Tag_decode_str(X, debug)
                      /\ result.tag.props = <<>>
                      /\ result.tag.label = <<>>
            /\ (Len(input) >= 2 /\ input[1] = 63 /\ input[2] = 35)
                   => result = Tag_decode_str(Tail(input), debug)

\* C27 witness: "~20220625?#" was decoded to the tag of the facet
\* "~20220625".
C27_Witness ==
    /\ op = "decode_str"
    /\ input = B(<<"~", "2", "0", "2", "2", "0", "6", "2", "5", "?", "#">>)
    /\ result = OkTag([DefaultTag EXCEPT !.facet = B(<<"~", "2", "0", "2", "2", "0", "6", "2", "5">>)])

\* C28: every tag that Tag::decode_str returns as Ok has only valid
\* fields: label and facet are trimmed, and every property has a name that
\* is not empty, is trimmed and does not start with '/'.  "x?=v" and
\* "x?k=v&" give no tag with a property of an empty name.
C28_DecodedFieldsValid ==
    (op = "decode_str" /\ result.kind = "Ok") =>
        /\ trim(result.tag.label) = result.tag.label
        /\ trim(result.tag.facet) = result.tag.facet
        /\ \A i \in 1..Len(result.tag.props) :
               /\ result.tag.props[i].key # <<>>
               /\ trim(result.tag.props[i].key) = result.tag.props[i].key
               /\ result.tag.props[i].key[1] # 47

\* C29: the encoding of a valid tag is one token for the scanner that
\* passes the preconditions of the decoder: it is not empty, it has no
\* white space (ASCII or Unicode) and no control character, every byte of
\* it being a printable ASCII character, and it does not start with '/'.
C29_EncodedIsToken ==
    (op = "encode" /\ result.kind = "Ok") =>
        /\ output # <<>>
        /\ \A i \in 1..Len(output) : WsLenAt(output, i) = 0
        /\ \A i \in 1..Len(output) : output[i] \in 33..126
        /\ output[1] # 47
        /\ PassesPreconditions(output)

\* C29 witness: a tag whose label has a no-break space and a tab, and
\* whose property has a space and a '#' in its value, was encoded.
C29_Witness ==
    /\ op = "encode" /\ result.kind = "Ok"
    /\ tag.label = B(<<"x">>) \o NBSP \o B(<<"\t", "y">>)
    /\ tag.facet = B(<<"x", "/", "y">>)
    /\ tag.props = <<[key |-> B(<<"k">>), val |-> B(<<"v", " ", "#">>)]>>
    /\ output = B(<<"x", "/", "y", "?", "k", "=", "v", "%", "2", "0", "%", "2", "3", "#",
                     "x", "%", "C", "2", "%", "A", "0", "%", "0", "9", "y">>)

(***************************************************************************)
(* A caller that holds a DecodedTags value and calls dedup and             *)
(* reorder_date_like on it, in any order and any number of times.          *)
(* previous keeps the value the caller started with.                       *)
(***************************************************************************)

ListInit ==
    /\ debug \in BOOLEAN
    /\ given = "tags"
    /\ decoded \in DecodedInputs
    /\ previous = decoded
    /\ input = <<>>
    /\ tag = DefaultTag
    /\ op = "new"
    /\ result = NoResult
    /\ output = <<>>

\* decoded.dedup(), after any calls before it
ListDedup ==
    /\ decoded.kind = "Ok"
    /\ decoded' = DecodedTags_dedup(decoded, debug)
    /\ op' = "dedup"
    /\ UNCHANGED <<debug, given, tag, input, result, output, previous>>

\* decoded.reorder_date_like(), after any calls before it
ListReorderDateLike ==
    /\ decoded.kind = "Ok"
    /\ decoded' = DecodedTags_reorder_date_like(decoded)
    /\ op' = "reorder_date_like"
    /\ UNCHANGED <<debug, given, tag, input, result, output, previous>>

ListNext == ListDedup \/ ListReorderDateLike

ListSpec == ListInit /\ [][ListNext]_vars

\* How often the tag t occurs in tags.
RECURSIVE Occurrences(_, _)
Occurrences(tags, t) ==
    IF tags = <<>> THEN 0
    ELSE (IF Head(tags) = t THEN 1 ELSE 0) + Occurrences(Tail(tags), t)

\* C30: for every DecodedTags value and every finite sequence of calls of
\* dedup and reorder_date_like that return, after each call
\* undecoded_prefix has the value it had at the start, every tag of the
\* list was in the list at the start and occurs at most as often as
\* there, and a call of reorder_date_like leaves the number of tags as it
\* was before the call.
C30_CallsKeepPrefixAndTags ==
    [][decoded'.kind = "Ok" =>
          /\ decoded'.undecoded_prefix = previous.undecoded_prefix
          /\ \A i \in 1..Len(decoded'.tags) :
                 /\ Occurrences(previous.tags, decoded'.tags[i]) > 0
                 /\ Occurrences(decoded'.tags, decoded'.tags[i])
                        <= Occurrences(previous.tags, decoded'.tags[i])
          /\ op' = "reorder_date_like" => Len(decoded'.tags) = Len(decoded.tags)]_vars

\* C30 witness: from the list "~20220101 #x #x" behind the prefix "x\n",
\* a reorder_date_like and a dedup made the list "#x ~20220101", and
\* reorder_date_like was called again.
C30_Witness ==
    /\ op = "reorder_date_like" /\ decoded.kind = "Ok"
    /\ previous.undecoded_prefix = B(<<"x", "\n">>)
    /\ previous.tags
         = <<[DefaultTag EXCEPT !.facet = B(<<"~", "2", "0", "2", "2", "0", "1", "0", "1">>)],
             [DefaultTag EXCEPT !.label = B(<<"x">>)],
             [DefaultTag EXCEPT !.label = B(<<"x">>)]>>
    /\ decoded.tags
         = <<[DefaultTag EXCEPT !.label = B(<<"x">>)],
             [DefaultTag EXCEPT !.facet = B(<<"~", "2", "0", "2", "2", "0", "1", "0", "1">>)]>>
    /\ decoded.undecoded_prefix = B(<<"x", "\n">>)

====
